---- MODULE Spec2Model ----
(***************************************************************************)
(* A model of the Gotcha OSINT engines: the username probes of             *)
(* SocialMediaHunter and UsernameHunter, the email probes of EmailHunter,  *)
(* and the hunts that dispatch them through a shared aiohttp session.      *)
(*                                                                         *)
(* Text is a sequence of one-character strings over a four letter          *)
(* alphabet with both cases, so that str.lower() and the substring test    *)
(* `indicator.lower() in content.lower()` are computed, not assumed.       *)
(***************************************************************************)
EXTENDS Integers, Sequences, FiniteSets, TLC

VARIABLES
    probeIn,     \* the arguments and transport outcome of the last probe call
    probeOut,    \* what that probe call returned: [raised, value]
    hunter,      \* the class of the hunter object the hunts run on
    platforms,   \* SocialMediaHunter.platforms, a dict in insertion order
    workers,     \* config.max_workers of the hunter
    session,     \* self.session of the hunter: 0 for None, else a session id
    sessions,    \* every ClientSession created so far, by id
    started,     \* how many invocations of hunt entry points were made
    hunts        \* the hunt each caller awaits, or awaited last

probeVars == <<probeIn, probeOut>>

huntVars == <<hunter, platforms, workers, session, sessions, started, hunts>>

vars == <<probeIn, probeOut, hunter, platforms, workers, session, sessions, started, hunts>>

(***************************************************************************)
(* Bounds of the model.                                                    *)
(***************************************************************************)
MaxBodyLen == 3

\* how many invocations of hunt entry points one behaviour makes
MaxHunts == 2

\* the longest list of results handed to generate_breach_report
MaxResults == 6

\* the largest config.max_workers a behaviour runs with (the default of
\* 50 exceeds every catalog of the model)
MaxWorkers == 2

(***************************************************************************)
(* Text.                                                                   *)
(***************************************************************************)
Alphabet == {"a", "A", "b", "B"}

\* str.lower(), one character
LowerChar(c) ==
    CASE c = "A" -> "a"
      [] c = "B" -> "b"
      [] OTHER -> c

\* str.lower()
Lower(s) == [i \in 1..Len(s) |-> LowerChar(s[i])]

\* `needle in hay` of Python: needle occurs as a contiguous slice of hay
\* (the empty needle occurs in every text)
Contains(hay, needle) ==
    \E k \in 0..(Len(hay) - Len(needle)) :
        \A i \in 1..Len(needle) : hay[k + i] = needle[i]

\* any(f(x) for x in list)
RECURSIVE AnyIndicatorIn(_, _)
AnyIndicatorIn(indicators, content) ==
    IF indicators = <<>> THEN FALSE
    ELSE \/ Contains(Lower(content), Lower(Head(indicators)))
         \/ AnyIndicatorIn(Tail(indicators), content)

\* any(indicator in content.lower() for indicator in [...]): the indicator
\* is used as written, only the content is lowered
RECURSIVE AnyLiteralIn(_, _)
AnyLiteralIn(indicators, content) ==
    IF indicators = <<>> THEN FALSE
    ELSE \/ Contains(Lower(content), Head(indicators))
         \/ AnyLiteralIn(Tail(indicators), content)

RECURSIVE SeqsUpTo(_)
SeqsUpTo(n) ==
    IF n = 0 THEN {<<>>}
    ELSE LET shorter == SeqsUpTo(n - 1)
         IN  shorter \cup {Append(s, c) : s \in {t \in shorter : Len(t) = n - 1},
                                          c \in Alphabet}

Bodies == SeqsUpTo(MaxBodyLen)

(***************************************************************************)
(* str.format(username) on a URL template.  A template is a sequence of    *)
(* tokens: a literal chunk, the placeholder "{}", or a token that makes    *)
(* format() raise ("{1}": IndexError, "{": ValueError).                    *)
(***************************************************************************)
BadTokens == {"{1}", "{"}

FormatRaises(template) == \E i \in 1..Len(template) : template[i] \in BadTokens

Format(template, username) ==
    [i \in 1..Len(template) |->
        IF template[i] = "{}" THEN username ELSE template[i]]

(***************************************************************************)
(* What the transport can answer to one request.  An HTTP response has a   *)
(* status and a body; a request can also end in asyncio.TimeoutError       *)
(* (whose str() is the empty string) or in another exception (a            *)
(* aiohttp.ClientError such as a refused connection, a closed session).    *)
(***************************************************************************)
Statuses == {200, 404, 500}

TimeoutError == [kind |-> "timeout", msg |-> ""]

ErrorMsgs == {"Cannot connect to host", "Session is closed"}

Failures == {TimeoutError} \cup {[kind |-> "error", msg |-> m] : m \in ErrorMsgs}

HttpResponses == {[kind |-> "response", status |-> st, body |-> b] :
                    st \in Statuses, b \in Bodies}

\* a response whose body cannot be read: the status has arrived and
\* `await response.text()` raises (aiohttp.ClientPayloadError)
PayloadErrorMsg == "Response payload is not completed"

PayloadErrors ==
    {[kind |-> "error", msg |-> PayloadErrorMsg, status |-> st] : st \in Statuses}

Responses == HttpResponses \cup Failures \cup PayloadErrors

Usernames == {"alice", "bob"}

\* platform definitions handed to a probe: the dict entries of a catalog
\* (src/modules/engines/social_media.py:23-28) with short indicators, one
\* with no not_found_indicators, and one registered with a template that
\* str.format cannot expand
ProbePlatforms ==
    { [name |-> "twitter",
       data |-> [url |-> <<"https://twitter.com/", "{}">>,
                 check_url |-> <<"https://twitter.com/", "{}">>,
                 indicators |-> << <<"A", "b">>, <<"b", "B">> >>,
                 not_found_indicators |-> << <<"B", "a">> >>]],
      [name |-> "github",
       data |-> [url |-> <<"https://github.com/", "{}">>,
                 check_url |-> <<"https://github.com/", "{}">>,
                 indicators |-> << <<"a">> >>,
                 not_found_indicators |-> << >>]],
      [name |-> "custom",
       data |-> [url |-> <<"https://x.test/", "{1}">>,
                 check_url |-> <<"https://x.test/", "{1}">>,
                 indicators |-> << <<"a">> >>,
                 not_found_indicators |-> << <<"b">> >>]] }

EmptyInfo == << >>

Returned(v) == [raised |-> FALSE, value |-> v]

Raised(m) == [raised |-> TRUE, msg |-> m]

FormatErrorMsg == "Replacement index 1 out of range for positional args tuple"

(***************************************************************************)
(* SocialMediaHunter.check_username_on_platform                            *)
(***************************************************************************)
\* SocialClassify with the negative indicators left out of the test
SocialClassifyPositiveOnly(content, platform_data) ==
    AnyIndicatorIn(platform_data.indicators, content)

\* the `positive_indicators and not negative_indicators` test of a 200 body
SocialClassify(content, platform_data) ==
    /\ AnyIndicatorIn(platform_data.indicators, content)
    /\ ~ AnyIndicatorIn(platform_data.not_found_indicators, content)

\* except asyncio.TimeoutError: the dict built there
SocialTimeoutResult(username, platform, platform_data) ==
    IF FormatRaises(platform_data.url) THEN Raised(FormatErrorMsg)
    ELSE Returned([platform |-> platform, username |-> username,
                   url |-> Format(platform_data.url, username),
                   exists |-> FALSE, status_code |-> 0,
                   error |-> "Timeout"])

\* except Exception as e: the dict built there
SocialErrorResult(username, platform, platform_data, msg) ==
    IF FormatRaises(platform_data.url) THEN Raised(FormatErrorMsg)
    ELSE Returned([platform |-> platform, username |-> username,
                   url |-> Format(platform_data.url, username),
                   exists |-> FALSE, status_code |-> 0,
                   error |-> msg])

SocialMediaHunter_check_username_on_platform(username, platform, platform_data, resp) ==
    IF FormatRaises(platform_data.check_url)
    THEN SocialErrorResult(username, platform, platform_data, FormatErrorMsg)
    ELSE IF resp.kind = "timeout"
    THEN SocialTimeoutResult(username, platform, platform_data)
    ELSE IF resp.kind = "error"
    THEN SocialErrorResult(username, platform, platform_data, resp.msg)
    ELSE IF FormatRaises(platform_data.url)
    THEN SocialErrorResult(username, platform, platform_data, FormatErrorMsg)
    ELSE Returned([platform |-> platform, username |-> username,
                   url |-> Format(platform_data.url, username),
                   exists |-> (resp.status = 200
                               /\ SocialClassify(resp.body, platform_data)),
                   status_code |-> resp.status,
                   response_time |-> 0,
                   additional_info |-> EmptyInfo])

(***************************************************************************)
(* UsernameHunter.check_username_on_platform                               *)
(***************************************************************************)
UsernameClassify(content, platform_data) ==
    /\ AnyIndicatorIn(platform_data.indicators, content)
    /\ ~ AnyIndicatorIn(platform_data.not_found_indicators, content)

\* the handler with a fixed text in place of str(e)
UsernameErrorResultNoDetail(username, platform, platform_data, msg) ==
    IF FormatRaises(platform_data.url) THEN Raised(FormatErrorMsg)
    ELSE Returned([platform |-> platform, username |-> username,
                   url |-> Format(platform_data.url, username),
                   exists |-> FALSE,
                   error |-> "Error"])

\* except Exception as e: the only handler of this class; a timeout lands
\* here too and its str(e) is the error detail
UsernameErrorResult(username, platform, platform_data, msg) ==
    IF FormatRaises(platform_data.url) THEN Raised(FormatErrorMsg)
    ELSE Returned([platform |-> platform, username |-> username,
                   url |-> Format(platform_data.url, username),
                   exists |-> FALSE,
                   error |-> msg])

UsernameHunter_check_username_on_platform(username, platform, platform_data, resp) ==
    IF FormatRaises(platform_data.check_url)
    THEN UsernameErrorResult(username, platform, platform_data, FormatErrorMsg)
    ELSE IF resp.kind \in {"timeout", "error"}
    THEN UsernameErrorResult(username, platform, platform_data, resp.msg)
    ELSE IF FormatRaises(platform_data.url)
    THEN UsernameErrorResult(username, platform, platform_data, FormatErrorMsg)
    ELSE Returned([platform |-> platform, username |-> username,
                   url |-> Format(platform_data.url, username),
                   exists |-> (resp.status = 200
                               /\ UsernameClassify(resp.body, platform_data)),
                   status_code |-> resp.status,
                   additional_info |-> EmptyInfo])

\* the probe of either hunter class
CheckUsernameOnPlatform(cls, username, platform, platform_data, resp) ==
    IF cls = "social"
    THEN SocialMediaHunter_check_username_on_platform(username, platform, platform_data, resp)
    ELSE UsernameHunter_check_username_on_platform(username, platform, platform_data, resp)

(***************************************************************************)
(* EmailHunter: the per-platform account checks.  Each returns a dict or   *)
(* None and catches every exception of its request.  A response to one of  *)
(* these requests also carries what response.json() gives.                 *)
(***************************************************************************)
None == [none |-> TRUE]

\* response.json(): invalid JSON makes it raise; otherwise the fields the
\* checks read (IfExistsResult of Microsoft, total_count and the number of
\* items of the GitHub commit search)
JsonDocs ==
    { [valid |-> FALSE, IfExistsResult |-> 1, total_count |-> 0, items |-> 0],
      [valid |-> TRUE, IfExistsResult |-> 0, total_count |-> 0, items |-> 0],
      [valid |-> TRUE, IfExistsResult |-> 1, total_count |-> 1, items |-> 1],
      [valid |-> TRUE, IfExistsResult |-> 1, total_count |-> 1, items |-> 0] }

EmailResponses ==
    {[kind |-> "response", status |-> st, body |-> b, json |-> j] :
        st \in Statuses, b \in Bodies, j \in JsonDocs} \cup Failures

\* the answers to the second request of check_gravatar (the profile JSON)
ProfileResponses ==
    {[kind |-> "response", status |-> st, body |-> <<>>, json |-> j] :
        st \in Statuses, j \in JsonDocs} \cup Failures

Emails == {"a@x.test"}

\* ['password reset', 'check your email', 'reset link'], shortened to the
\* model's alphabet
AdobeIndicators == << <<"a", "b">>, <<"b", "b">> >>

\* ['reset', 'email', 'sent'], shortened to the model's alphabet
ChaturbateIndicators == << <<"a", "a">>, <<"b">> >>

check_gravatar(email, resp, profile) ==
    IF resp.kind # "response" THEN None
    ELSE IF resp.status # 200 THEN None
    ELSE IF profile.kind # "response" THEN None
    ELSE IF profile.status = 200 /\ ~ profile.json.valid THEN None
    ELSE [platform |-> "gravatar", email |-> email, exists |-> TRUE,
          additional_info |-> EmptyInfo]

check_microsoft_account(email, resp) ==
    IF resp.kind # "response" THEN None
    ELSE IF resp.status # 200 THEN None
    ELSE IF ~ resp.json.valid THEN None
    ELSE IF resp.json.IfExistsResult # 0 THEN None
    ELSE [platform |-> "microsoft", email |-> email, exists |-> TRUE,
          account_type |-> "Microsoft Account",
          additional_info |-> EmptyInfo]

\* resolvable: whether socket.getaddrinfo('accounts.adobe.com', 443) succeeds
check_adobe_account(email, resolvable, resp) ==
    IF ~ resolvable THEN None
    ELSE IF resp.kind # "response" THEN None
    ELSE IF AnyLiteralIn(AdobeIndicators, resp.body)
    THEN [platform |-> "adobe", email |-> email, exists |-> TRUE,
          account_type |-> "Adobe Account", additional_info |-> EmptyInfo]
    ELSE None

check_onlyfans_email(email, resp) ==
    IF resp.kind # "response" THEN None
    ELSE IF resp.status # 200 THEN None
    ELSE IF ~ resp.json.valid THEN None
    ELSE [platform |-> "onlyfans", email |-> email, exists |-> TRUE,
          account_type |-> "OnlyFans Account",
          additional_info |-> "Password reset attempted - manual verification recommended"]

check_pornhub_email(email, resp) == None

check_chaturbate_email(email, resp) ==
    IF resp.kind # "response" THEN None
    ELSE IF AnyLiteralIn(ChaturbateIndicators, resp.body)
    THEN [platform |-> "chaturbate", email |-> email, exists |-> TRUE,
          account_type |-> "Chaturbate Account",
          additional_info |-> "Password reset attempted"]
    ELSE None

check_github_by_email(email, resp) ==
    IF resp.kind # "response" THEN None
    ELSE IF resp.status # 200 THEN None
    ELSE IF ~ resp.json.valid THEN None
    ELSE IF resp.json.total_count > 0 /\ resp.json.items > 0
    THEN [platform |-> "github", email |-> email, exists |-> TRUE,
          additional_info |-> EmptyInfo]
    ELSE None

EmailChecks == {"gravatar", "microsoft", "adobe", "onlyfans", "pornhub",
                "chaturbate", "github"}

\* one account check, by name; `second` is the profile answer of gravatar
EmailCheck(check, email, resolvable, resp, second) ==
    CASE check = "gravatar" -> check_gravatar(email, resp, second)
      [] check = "microsoft" -> check_microsoft_account(email, resp)
      [] check = "adobe" -> check_adobe_account(email, resolvable, resp)
      [] check = "onlyfans" -> check_onlyfans_email(email, resp)
      [] check = "pornhub" -> check_pornhub_email(email, resp)
      [] check = "chaturbate" -> check_chaturbate_email(email, resp)
      [] check = "github" -> check_github_by_email(email, resp)

(***************************************************************************)
(* BreachChecker: the source checks and the report.                        *)
(***************************************************************************)
\* ['pwned', 'breach', 'found'], shortened to the model's alphabet
HibpIndicators == << <<"a", "b">> >>

check_haveibeenpwned(email, resp) ==
    IF resp.kind # "response" THEN None
    ELSE IF resp.status = 200 /\ AnyLiteralIn(HibpIndicators, resp.body)
    THEN [source |-> "Have I Been Pwned", email |-> email, found |-> TRUE]
    ELSE None

\* the placeholder dict; no request is made
check_breachdirectory(email) ==
    [source |-> "Breach Directory", email |-> email, found |-> FALSE]

Recommendations ==
    <<"Change passwords", "Enable two-factor authentication", "Monitor accounts",
      "Use a password manager", "Check credit reports">>

\* the report with 'High' from four results on
generate_breach_report_high_from_four(email, results) ==
    [email |-> email,
     total_breaches_found |-> Len(results),
     breach_sources |-> [i \in 1..Len(results) |-> results[i].source],
     risk_level |-> IF results = <<>> THEN "Unknown"
                    ELSE IF Len(results) >= 4 THEN "High"
                    ELSE IF Len(results) >= 2 THEN "Medium"
                    ELSE IF Len(results) >= 1 THEN "Low"
                    ELSE "Clean",
     recommendations |-> IF results = <<>> THEN <<>> ELSE Recommendations]

generate_breach_report(email, results) ==
    [email |-> email,
     total_breaches_found |-> Len(results),
     breach_sources |-> [i \in 1..Len(results) |-> results[i].source],
     risk_level |-> IF results = <<>> THEN "Unknown"
                    ELSE IF Len(results) >= 5 THEN "High"
                    ELSE IF Len(results) >= 2 THEN "Medium"
                    ELSE IF Len(results) >= 1 THEN "Low"
                    ELSE "Clean",
     recommendations |-> IF results = <<>> THEN <<>> ELSE Recommendations]

NoCall == [fn |-> "none"]

\* no probe call is in progress
ProbeIdle ==
    /\ probeIn = NoCall
    /\ probeOut = Returned(None)

(***************************************************************************)
(* The catalogs.  A dict is a sequence of entries in insertion order.      *)
(* Every catalog keeps its first platforms and, where it has them, its     *)
(* first adult platform; the indicators are shortened to the alphabet.     *)
(***************************************************************************)
PlatformEntry(name, host) ==
    [name |-> name,
     data |-> [url |-> <<host, "{}">>,
               check_url |-> <<host, "{}">>,
               indicators |-> << <<"A", "b">> >>,
               not_found_indicators |-> << <<"B", "a">> >>]]

\* SocialMediaHunter.platforms as __init__ leaves it
SocialPlatforms ==
    << PlatformEntry("twitter", "https://twitter.com/"),
       PlatformEntry("pornhub", "https://pornhub.com/users/") >>

\* adult_platforms of SocialMediaHunter.hunt_username
SocialAdultPlatforms ==
    {"pornhub", "xvideos", "redtube", "onlyfans", "chaturbate", "cam4",
     "myfreecams", "stripchat", "livejasmin", "bongacams", "camsoda", "fetlife"}

\* UsernameHunter.general_sites
general_sites ==
    << PlatformEntry("pastebin", "https://pastebin.com/u/"),
       PlatformEntry("adultfriendfinder", "https://adultfriendfinder.com/profile/") >>

\* UsernameHunter.developer_platforms
developer_platforms == << PlatformEntry("github", "https://github.com/") >>

\* UsernameHunter.forums
forums == << PlatformEntry("reddit", "https://reddit.com/user/") >>

\* UsernameHunter.gaming_platforms
gaming_platforms == << PlatformEntry("steam", "https://steamcommunity.com/id/") >>

\* adult_platforms of UsernameHunter.hunt_general_sites
GeneralAdultPlatforms ==
    {"adultfriendfinder", "ashley_madison", "seeking", "alt_com", "swappernet",
     "faphouse", "manyvids", "clips4sale", "iwantclips", "justforfans"}

\* the platforms this codebase tags as adult, in any catalog
AdultPlatforms == SocialAdultPlatforms \cup GeneralAdultPlatforms

\* platforms_to_check when the loop skips nothing and the adult platforms
\* are left to a filter of the results
PlatformsToCheckUnfiltered(catalog, adult_platforms, include_adult) == catalog

\* the loop `if platform in adult_platforms and not include_adult: continue`
PlatformsToCheck(catalog, adult_platforms, include_adult) ==
    SelectSeq(catalog, LAMBDA e : ~ (e.name \in adult_platforms /\ ~ include_adult))

\* the dict hunt_adult_platforms builds from general_sites
AdultOnly(catalog) ==
    SelectSeq(catalog, LAMBDA e : e.name \in GeneralAdultPlatforms)

(***************************************************************************)
(* The hunt entry points and the category hunts each of them awaits.       *)
(***************************************************************************)
SocialEntries == {"hunt_username", "hunt_multiple_usernames"}

\* the list a caller hands to hunt_multiple_usernames
UsernameList == <<"alice", "bob">>

UsernameEntries ==
    {"hunt_general_sites", "hunt_developer_platforms", "hunt_forums",
     "hunt_gaming_platforms", "hunt_adult_platforms", "hunt_all_platforms"}

EmailEntries ==
    {"hunt_social_accounts", "hunt_professional_accounts", "hunt_all_accounts"}

BreachEntries == {"check_breaches"}

HunterClasses == {"social", "username", "email", "breach"}

EntriesOf(cls) ==
    CASE cls = "social" -> SocialEntries
      [] cls = "username" -> UsernameEntries
      [] cls = "email" -> EmailEntries
      [] cls = "breach" -> BreachEntries

\* the identifier a caller hands to a hunter of class cls
IdentifierFor(cls) == IF cls \in {"social", "username"} THEN "alice" ELSE "a@x.test"

\* the entry points that take include_adult
TakesIncludeAdult(entry) ==
    entry \in {"hunt_username", "hunt_general_sites", "hunt_all_platforms"}

\* the dict of hunt_all_platforms with the adult category hunted first
hunt_all_platforms_keys_adult_first(include_adult) ==
    (IF include_adult THEN <<"adult_platforms">> ELSE <<>>)
    \o <<"general_sites", "developer_platforms", "forums", "gaming_platforms">>

\* the keys of the dict hunt_all_platforms builds, in the order it awaits them
hunt_all_platforms_keys(include_adult) ==
    <<"general_sites", "developer_platforms", "forums", "gaming_platforms">>
    \o (IF include_adult THEN <<"adult_platforms">> ELSE <<>>)

\* the category hunts of an entry point, in the order it awaits them
Plan(entry, include_adult) ==
    CASE entry = "hunt_username" -> <<"platforms">>
      [] entry = "hunt_multiple_usernames" -> UsernameList
      [] entry = "hunt_general_sites" -> <<"general_sites">>
      [] entry = "hunt_developer_platforms" -> <<"developer_platforms">>
      [] entry = "hunt_forums" -> <<"forums">>
      [] entry = "hunt_gaming_platforms" -> <<"gaming_platforms">>
      [] entry = "hunt_adult_platforms" -> <<"adult_platforms">>
      [] entry = "hunt_all_platforms" -> hunt_all_platforms_keys(include_adult)
      [] entry = "hunt_social_accounts" -> <<"social_accounts">>
      [] entry = "hunt_professional_accounts" -> <<"professional_accounts">>
      [] entry = "hunt_all_accounts" -> <<"social_accounts", "professional_accounts">>
      [] entry = "check_breaches" -> <<"breaches">>

\* the platforms one category hunt creates tasks for
TasksFor(cat, include_adult, catalog) ==
    CASE cat = "platforms" ->
            PlatformsToCheck(catalog, SocialAdultPlatforms, include_adult)
      [] cat \in Usernames ->
            PlatformsToCheck(catalog, SocialAdultPlatforms, FALSE)
      [] cat = "general_sites" ->
            PlatformsToCheck(general_sites, GeneralAdultPlatforms, include_adult)
      [] cat = "developer_platforms" -> developer_platforms
      [] cat = "forums" -> forums
      [] cat = "gaming_platforms" -> gaming_platforms
      [] cat = "adult_platforms" -> AdultOnly(general_sites)

\* the list of hunt_social_accounts with the adult sites checked first
ChecksForAdultFirst(cat) ==
    CASE cat = "social_accounts" ->
            <<"onlyfans", "pornhub", "chaturbate", "gravatar", "microsoft", "adobe">>
      [] cat = "professional_accounts" -> <<"github">>
      [] cat = "breaches" -> <<"haveibeenpwned", "breachdirectory">>

\* the checks an email or breach hunt awaits, in the order of its list
ChecksFor(cat) ==
    CASE cat = "social_accounts" ->
            <<"gravatar", "microsoft", "adobe", "onlyfans", "pornhub", "chaturbate">>
      [] cat = "professional_accounts" -> <<"github">>
      [] cat = "breaches" -> <<"haveibeenpwned", "breachdirectory">>

\* the entry points whose finally clause calls close_session
ClosesSession(entry) ==
    entry \notin {"hunt_social_accounts", "hunt_professional_accounts"}

\* the coroutines that call the entry points of the one hunter object;
\* each awaits its hunt before it calls the next
Callers == {1, 2}

\* a caller that awaits no hunt
IdleHunt ==
    [id |-> 0, entry |-> "none", username |-> "", include_adult |-> FALSE,
     plan |-> <<>>, step |-> 0, pc |-> "idle", tasks |-> <<>>, probes |-> <<>>,
     idx |-> 0, results |-> <<>>, valid |-> <<>>, out |-> <<>>,
     raised |-> FALSE, opened |-> 0, requested |-> <<>>, slept |-> 0]

(***************************************************************************)
(* Sessions.  create_session builds a ClientSession whose TCPConnector     *)
(* admits `limit` connections at a time (0: no limit); a request beyond    *)
(* the limit waits for a connection.                                       *)
(***************************************************************************)
\* TCPConnector(limit=self.config.max_workers)
ConnectorLimit == workers

\* a session whose connector was built without the limit
NewSessionUnlimited(owner) == [open |-> TRUE, limit |-> 0, owner |-> owner]

\* create_session: the ClientSession it builds
NewSession(owner) == [open |-> TRUE, limit |-> ConnectorLimit, owner |-> owner]

\* `if not self.session: await self.create_session()`: the sessions and
\* self.session afterwards
SessionsAfterCreate(h) ==
    IF session = 0 THEN Append(sessions, NewSession(h)) ELSE sessions

SessionAfterCreate == IF session = 0 THEN Len(sessions) + 1 ELSE session

(***************************************************************************)
(* Probe tasks of a category hunt.                                         *)
(***************************************************************************)
NoResult == Returned(None)

\* a coroutine object of check_username_on_platform, not yet started
CreatedProbe == [st |-> "created", sid |-> 0, end |-> "none", out |-> NoResult]

\* the requests that hold a connection of session sid
RECURSIVE InflightIn(_, _)
InflightIn(probes, sid) ==
    IF probes = <<>> THEN 0
    ELSE (IF Head(probes).st = "inflight" /\ Head(probes).sid = sid THEN 1 ELSE 0)
         + InflightIn(Tail(probes), sid)

InflightCount(sid) ==
    InflightIn(hunts[1].probes, sid) + InflightIn(hunts[2].probes, sid)

\* whether the connector of session sid has a free connection when `taken`
\* more requests have just been admitted
HasFreeConnection(sid, taken) ==
    \/ sessions[sid].limit = 0
    \/ InflightCount(sid) + taken < sessions[sid].limit

AttributeErrorMsg == "'NoneType' object has no attribute 'get'"

SessionClosedError == [kind |-> "error", msg |-> "Session is closed"]

\* the tasks before task i whose request reaches the connector
StartableBefore(tasks, i) ==
    Cardinality({j \in 1..(i - 1) : ~ FormatRaises(tasks[j].data.check_url)})

\* platform_data of task i read from self.platforms when the probe runs
platform_data_of_catalog(tasks, i) ==
    IF \E k \in 1..Len(platforms) : platforms[k].name = tasks[i].name
    THEN platforms[CHOOSE k \in 1..Len(platforms) :
                        platforms[k].name = tasks[i].name].data
    ELSE tasks[i].data

\* the platform_data argument the coroutine of task i was created with:
\* the dict that was the value of the platform when the tasks were built
platform_data(tasks, i) == tasks[i].data

\* the first step of task i of a batch, up to its first suspension: the
\* check_url is formatted, self.session.get is called, and the request
\* takes a connection or waits for one
StartedProbe(cls, username, tasks, i) ==
    LET t == [name |-> tasks[i].name, data |-> platform_data(tasks, i)]
        fail(resp) == [st |-> "done", sid |-> session,
                       end |-> IF FormatRaises(t.data.check_url)
                               THEN "format" ELSE resp.kind,
                       out |-> CheckUsernameOnPlatform(cls, username, t.name, t.data, resp)]
    IN  \* a check_url that does not expand ends the probe before any
        \* request is made; the probe does not consult an answer then
        IF FormatRaises(t.data.check_url) THEN fail(TimeoutError)
        ELSE IF session = 0 THEN fail([kind |-> "error", msg |-> AttributeErrorMsg])
        ELSE IF ~ sessions[session].open THEN fail(SessionClosedError)
        ELSE IF HasFreeConnection(session, StartableBefore(tasks, i))
        THEN [st |-> "inflight", sid |-> session, end |-> "none", out |-> NoResult]
        ELSE [st |-> "waiting", sid |-> session, end |-> "none", out |-> NoResult]

\* the answers a request of a hunt can get
FoundBody == <<"a", "B">>

BothBody == <<"a", "B", "A">>

\* a session created without a ClientTimeout: no request ever times out
NoRequestTimeouts == {}

\* ClientTimeout(total=self.config.timeout): a request that has not ended
\* when the time is up, queued or sent, ends in asyncio.TimeoutError
RequestTimeouts == {TimeoutError}

HuntResponses ==
    { [kind |-> "response", status |-> 200, body |-> FoundBody],
      [kind |-> "response", status |-> 404, body |-> BothBody] }
    \cup RequestTimeouts

\* what the request of a suspended probe can end in: on a closed session
\* it fails; while it waits for a connection only its timeout can end it
AnswersFor(probe) ==
    IF ~ sessions[probe.sid].open THEN {SessionClosedError}
    ELSE IF probe.st = "waiting" THEN RequestTimeouts
    ELSE HuntResponses

\* asyncio.gather(*tasks, return_exceptions=...): the list of results, an
\* exception standing in the list for the task that raised it, or the
\* first exception raised when return_exceptions is off
ReturnExceptionsOff == FALSE

\* the results in another order than the order of the tasks
gather_reversed(outs, return_exceptions) ==
    Returned([i \in 1..Len(outs) |-> outs[Len(outs) + 1 - i]])

ReturnExceptions == TRUE

gather(outs, return_exceptions) ==
    IF ~ return_exceptions /\ \E i \in 1..Len(outs) : outs[i].raised
    THEN Raised(outs[CHOOSE i \in 1..Len(outs) :
                        /\ outs[i].raised
                        /\ \A j \in 1..(i - 1) : ~ outs[j].raised].msg)
    ELSE Returned(outs)

\* isinstance(result, dict) alone, without the test of 'exists'
IsValidResultAnyDict(out) == ~ out.raised

\* `isinstance(result, dict) and result.get('exists', False)`
IsValidResult(out) == ~ out.raised /\ out.value.exists

\* valid_results when the loop stops at the first result it keeps
ValidResultsFirstOnly(results) ==
    LET kept == SelectSeq(results, IsValidResult)
    IN  IF kept = <<>> THEN <<>> ELSE <<kept[1].value>>

\* valid_results of a category hunt, as dicts
ValidResults(results) ==
    LET kept == SelectSeq(results, IsValidResult)
    IN  [i \in 1..Len(kept) |-> kept[i].value]

(***************************************************************************)
(* Hunts on one hunter object.                                             *)
(***************************************************************************)
HuntInit ==
    /\ hunter \in HunterClasses
    /\ platforms = SocialPlatforms
    /\ workers \in 1..MaxWorkers
    /\ session = 0
    /\ sessions = <<>>
    /\ started = 0
    /\ hunts = [c \in Callers |-> IdleHunt]

AllDone(probes) == \A i \in 1..Len(probes) : probes[i].st = "done"

ActiveHunts == {h \in Callers : hunts[h].pc \notin {"idle", "returned"}}

\* hunts overlap only between the single-category entry points of the
\* username hunters; the other entry points are explored on their own
RunsAlone(entry) ==
    entry \in {"hunt_all_platforms", "hunt_multiple_usernames"}
               \cup EmailEntries \cup BreachEntries

\* self.platforms[name] = value
DictSet(dict, name, value) ==
    IF \E i \in 1..Len(dict) : dict[i].name = name
    THEN [i \in 1..Len(dict) |->
            IF dict[i].name = name THEN [name |-> name, data |-> value] ELSE dict[i]]
    ELSE Append(dict, [name |-> name, data |-> value])

\* the URL pattern a caller registers: one that str.format cannot expand
UrlPatterns == { <<"https://x.test/", "{1}">> }

\* SocialMediaHunter.add_custom_platform
add_custom_platform(name, url_pattern, indicators, not_found_indicators) ==
    /\ hunter = "social"
    /\ platforms' = DictSet(platforms, name,
                            [url |-> url_pattern, check_url |-> url_pattern,
                             indicators |-> indicators,
                             not_found_indicators |-> not_found_indicators])
    /\ UNCHANGED <<hunter, workers, session, sessions, started, hunts, probeVars>>

\* a caller invokes an entry point of the hunter; the callers have taken
\* the results of the hunts that returned before
StartHunt(c) ==
    /\ started < MaxHunts
    /\ hunts[c].pc \in {"idle", "returned"}
    /\ \A d \in Callers : d < c => d \in ActiveHunts
    /\ \A h \in ActiveHunts : ~ RunsAlone(hunts[h].entry)
    /\ \E entry \in EntriesOf(hunter), username \in {IdentifierFor(hunter)},
          include_adult \in BOOLEAN :
        /\ include_adult => TakesIncludeAdult(entry)
        /\ RunsAlone(entry) => ActiveHunts = {}
        /\ hunts' = [h \in Callers |->
                IF h = c
                THEN [IdleHunt EXCEPT !.id = started + 1, !.entry = entry,
                                      !.username = username,
                                      !.include_adult = include_adult,
                                      !.plan = Plan(entry, include_adult),
                                      !.step = 1, !.pc = "start"]
                ELSE IF hunts[h].pc = "returned" THEN IdleHunt ELSE hunts[h]]
    /\ started' = started + 1
    /\ UNCHANGED <<hunter, platforms, workers, session, sessions, probeVars>>

\* hunt_username / hunt_platforms up to `await asyncio.gather(...)`: the
\* session is created if self.session is None, the platforms are filtered
\* and one task is created per platform
Dispatch(h) ==
    /\ hunts[h].pc = "start"
    /\ hunter \in {"social", "username"}
    /\ LET r == hunts[h]
           tasks == TasksFor(r.plan[r.step], r.include_adult, platforms)
       IN  /\ sessions' = SessionsAfterCreate(r.id)
           /\ session' = SessionAfterCreate
           /\ hunts' = [hunts EXCEPT ![h] =
                [r EXCEPT !.pc = "scheduled",
                          !.username = IF r.entry = "hunt_multiple_usernames"
                                       THEN r.plan[r.step] ELSE r.username,
                          !.tasks = tasks,
                          !.probes = [i \in 1..Len(tasks) |-> CreatedProbe],
                          !.results = <<>>, !.valid = <<>>,
                          !.opened = r.opened + (IF session = 0 THEN 1 ELSE 0)]]
    /\ UNCHANGED <<hunter, platforms, workers, started, probeVars>>

\* the requests a batch hands to the session, by category key and platform:
\* the tasks whose self.session.get reaches the connector
RequestsOf(key, tasks, probes) ==
    LET issued == SelectSeq([i \in 1..Len(tasks) |-> i],
                            LAMBDA i : probes[i].st \in {"inflight", "waiting"})
    IN  [k \in 1..Len(issued) |-> [key |-> key, platform |-> tasks[issued[k]].name]]

\* the event loop runs the first step of every task of the batch
StartTasks(h) ==
    /\ hunts[h].pc = "scheduled"
    /\ LET r == hunts[h]
           probes == [i \in 1..Len(r.tasks) |->
                        StartedProbe(hunter, r.username, r.tasks, i)]
       IN  hunts' = [hunts EXCEPT ![h] =
                [r EXCEPT !.pc = "gather",
                          !.probes = probes,
                          !.requested = r.requested
                                \o RequestsOf(r.plan[r.step], r.tasks, probes)]]
    /\ UNCHANGED <<hunter, platforms, workers, session, sessions, started, probeVars>>

\* a waiting request gets a connection that has become free
AcquireConnection(h, i) ==
    /\ hunts[h].pc = "gather"
    /\ hunts[h].probes[i].st = "waiting"
    /\ sessions[hunts[h].probes[i].sid].open
    /\ HasFreeConnection(hunts[h].probes[i].sid, 0)
    /\ hunts' = [hunts EXCEPT ![h].probes[i].st = "inflight"]
    /\ UNCHANGED <<hunter, platforms, workers, session, sessions, started, probeVars>>

\* the request of a probe ends in resp and the probe returns its result
CompleteProbeWith(h, i, resp) ==
    /\ hunts[h].pc = "gather"
    /\ i \in 1..Len(hunts[h].probes)
    /\ hunts[h].probes[i].st \in {"waiting", "inflight"}
    /\ resp \in AnswersFor(hunts[h].probes[i])
    /\ LET r == hunts[h]
           t == [name |-> r.tasks[i].name, data |-> platform_data(r.tasks, i)]
       IN  hunts' = [hunts EXCEPT ![h].probes[i] =
                [st |-> "done", sid |-> r.probes[i].sid, end |-> resp.kind,
                 out |-> CheckUsernameOnPlatform(hunter, r.username, t.name, t.data, resp)]]
    /\ UNCHANGED <<hunter, platforms, workers, session, sessions, started, probeVars>>

\* the request of a probe ends and the probe returns its result
CompleteProbe(h, i) ==
    \E resp \in HuntResponses \cup {SessionClosedError} : CompleteProbeWith(h, i, resp)

\* what a category hunt leaves under its key; check_breaches returns the
\* report generated from its results
OutEntry(r, valid) ==
    IF r.entry = "check_breaches"
    THEN [key |-> r.plan[r.step], found |-> valid,
          report |-> generate_breach_report(r.username, valid)]
    ELSE [key |-> r.plan[r.step], found |-> valid]

\* the loop of hunt_multiple_usernames without its asyncio.sleep
PcAfterBatchNoSleep(r) ==
    IF r.step = Len(r.plan) THEN "returned" ELSE "start"

\* where an entry point goes on when one of its category hunts has ended:
\* hunt_multiple_usernames awaits asyncio.sleep after every hunt_username,
\* the others start their next category hunt or return
PcAfterBatch(r) ==
    IF r.entry = "hunt_multiple_usernames" THEN "sleeping"
    ELSE IF r.step = Len(r.plan) THEN "returned" ELSE "start"

\* the category hunt ends: its result is appended under its key and the
\* entry point goes on to its next category hunt, or returns
FinishedHunt(r, raised, valid) ==
    IF raised
    THEN [r EXCEPT !.pc = "returned", !.raised = TRUE, !.tasks = <<>>,
                   !.probes = <<>>, !.results = <<>>, !.valid = <<>>, !.idx = 0,
                   !.requested = <<>>]
    ELSE [r EXCEPT !.out = Append(r.out, OutEntry(r, valid)),
                   !.step = r.step + 1,
                   !.pc = PcAfterBatch(r),
                   !.tasks = <<>>, !.probes = <<>>, !.results = <<>>,
                   !.valid = <<>>, !.idx = 0,
                   !.requested = IF r.step = Len(r.plan)
                                    \/ r.entry = "hunt_multiple_usernames"
                                 THEN <<>> ELSE r.requested]

\* `await asyncio.sleep(self.config.delay_between_requests)` of
\* hunt_multiple_usernames returns: the loop takes the next username, or
\* the results are returned
DelayElapsed(h) ==
    /\ hunts[h].pc = "sleeping"
    /\ hunts' = [hunts EXCEPT ![h] =
            [hunts[h] EXCEPT !.slept = hunts[h].slept + 1,
                             !.pc = IF hunts[h].step > Len(hunts[h].plan)
                                    THEN "returned" ELSE "start"]]
    /\ UNCHANGED <<hunter, platforms, workers, session, sessions, started, probeVars>>

\* the finally clause without the try around close_session
CloseErrorReraised == FALSE

\* `except Exception as e: self.logger.warning(...)` around close_session
CloseErrorLogged == TRUE

\* the finally clause: close_session closes self.session if there is one
\* and suspends in `await self.session.close()`.  A close that raises is
\* logged and the hunt goes on with self.session as it was.
CloseSession(h, r) ==
    \/ /\ session = 0
       /\ hunts' = [hunts EXCEPT ![h] = FinishedHunt(r, r.raised, r.valid)]
       /\ UNCHANGED <<session, sessions>>
    \/ /\ session # 0
       /\ sessions' = [sessions EXCEPT ![session].open = FALSE]
       /\ hunts' = [hunts EXCEPT ![h] = [r EXCEPT !.pc = "closing"]]
       /\ UNCHANGED session
    \/ /\ session # 0
       /\ hunts' = [hunts EXCEPT ![h] =
                        FinishedHunt(r, r.raised \/ ~ CloseErrorLogged, r.valid)]
       /\ UNCHANGED <<session, sessions>>

\* gather returns, the results are filtered and the finally clause runs
ResumeAfterGather(h) ==
    /\ hunts[h].pc = "gather"
    /\ AllDone(hunts[h].probes)
    /\ LET r == hunts[h]
           g == gather([i \in 1..Len(r.probes) |-> r.probes[i].out], ReturnExceptions)
           results == IF g.raised THEN <<>> ELSE g.value
       IN  CloseSession(h, [r EXCEPT !.results = results,
                                     !.valid = ValidResults(results),
                                     !.raised = g.raised])
    /\ UNCHANGED <<hunter, platforms, workers, started, probeVars>>

\* `await self.session.close()` returns and close_session sets
\* self.session = None
CloseDone(h) ==
    /\ hunts[h].pc = "closing"
    /\ session' = 0
    /\ hunts' = [hunts EXCEPT ![h] =
                    FinishedHunt(hunts[h], hunts[h].raised, hunts[h].valid)]
    /\ UNCHANGED <<hunter, platforms, workers, sessions, started, probeVars>>

(***************************************************************************)
(* The hunts of EmailHunter and BreachChecker: the checks are awaited one  *)
(* after the other.                                                        *)
(***************************************************************************)
\* the answers a request of a check can get
CheckBody == <<"a", "b">>

CheckJson == [valid |-> TRUE, IfExistsResult |-> 0, total_count |-> 1, items |-> 1]

CheckResponses ==
    { [kind |-> "response", status |-> 200, body |-> CheckBody, json |-> CheckJson],
      [kind |-> "response", status |-> 404, body |-> CheckBody, json |-> CheckJson],
      TimeoutError }

\* what self.session.get(...) of a check ends in
CheckAnswers ==
    IF session = 0 THEN {[kind |-> "error", msg |-> AttributeErrorMsg]}
    ELSE IF ~ sessions[session].open THEN {SessionClosedError}
    ELSE CheckResponses

\* one check of a hunt, by name
RunCheck(check, email, resolvable, resp, second) ==
    CASE check \in EmailChecks -> EmailCheck(check, email, resolvable, resp, second)
      [] check = "haveibeenpwned" -> check_haveibeenpwned(email, resp)
      [] check = "breachdirectory" -> check_breachdirectory(email)

\* `if result and result.get('exists')` of EmailHunter, `if result` of
\* BreachChecker
KeepsResult(cls, result) ==
    /\ result # None
    /\ cls = "email" => result.exists

\* hunt_social_accounts / hunt_professional_accounts / check_breaches up to
\* the first check: the session is created if self.session is None
StartChecks(h) ==
    /\ hunts[h].pc = "start"
    /\ hunter \in {"email", "breach"}
    /\ LET r == hunts[h]
       IN  /\ sessions' = SessionsAfterCreate(r.id)
           /\ session' = SessionAfterCreate
           /\ hunts' = [hunts EXCEPT ![h] =
                [r EXCEPT !.pc = "checks",
                          !.tasks = ChecksFor(r.plan[r.step]),
                          !.idx = 1, !.valid = <<>>,
                          !.opened = r.opened + (IF session = 0 THEN 1 ELSE 0)]]
    /\ UNCHANGED <<hunter, platforms, workers, started, probeVars>>

\* the next check of the list is awaited and its result kept or dropped
AwaitCheck(h) ==
    /\ hunts[h].pc = "checks"
    /\ hunts[h].idx <= Len(hunts[h].tasks)
    /\ LET r == hunts[h]
           check == r.tasks[r.idx]
       IN  \E resp \in CheckAnswers :
           \E second \in (IF check = "gravatar" THEN CheckAnswers ELSE {resp}),
              resolvable \in (IF check = "adobe" THEN BOOLEAN ELSE {TRUE}) :
             LET result == RunCheck(check, r.username, resolvable, resp, second)
             IN  hunts' = [hunts EXCEPT ![h] =
                    [r EXCEPT !.idx = r.idx + 1,
                              !.valid = IF KeepsResult(hunter, result)
                                        THEN Append(r.valid, result) ELSE r.valid]]
    /\ UNCHANGED <<hunter, platforms, workers, session, sessions, started, probeVars>>

\* the list of checks is exhausted: the results are returned, through the
\* finally clause of hunt_all_accounts / check_breaches at their end
FinishChecks(h) ==
    /\ hunts[h].pc = "checks"
    /\ hunts[h].idx > Len(hunts[h].tasks)
    /\ LET r == hunts[h]
       IN  IF r.step = Len(r.plan) /\ ClosesSession(r.entry)
           THEN CloseSession(h, r)
           ELSE /\ hunts' = [hunts EXCEPT ![h] = FinishedHunt(r, FALSE, r.valid)]
                /\ UNCHANGED <<session, sessions>>
    /\ UNCHANGED <<hunter, platforms, workers, started, probeVars>>

Init == ProbeIdle /\ HuntInit

\* Next registers custom platforms before the first hunt only
Next ==
    \/ /\ started = 0
       /\ \E name \in {"custom"}, url_pattern \in UrlPatterns :
            add_custom_platform(name, url_pattern, << <<"a">> >>, << <<"b">> >>)
    \/ \E c \in Callers : StartHunt(c)
    \/ \E h \in Callers : Dispatch(h)
    \/ \E h \in Callers : StartTasks(h)
    \/ \E h \in Callers : \E i \in 1..Len(hunts[h].probes) : AcquireConnection(h, i)
    \/ \E h \in Callers : \E i \in 1..Len(hunts[h].probes) : CompleteProbe(h, i)
    \/ \E h \in Callers : ResumeAfterGather(h)
    \/ \E h \in Callers : CloseDone(h)
    \/ \E h \in Callers : StartChecks(h)
    \/ \E h \in Callers : AwaitCheck(h)
    \/ \E h \in Callers : FinishChecks(h)
    \/ \E h \in Callers : DelayElapsed(h)

Spec == Init /\ [][Next]_vars

(***************************************************************************)
(* The hunts under the scheduling the event loop guarantees: a coroutine   *)
(* that can run does run, and a request that no answer ends is ended by    *)
(* the timeout of its session or by the close of its session.  That a      *)
(* platform answers is not guaranteed.                                     *)
(***************************************************************************)
\* the request of probe i ends without an answer of its platform
ProbeExpires(h, i) ==
    \E resp \in RequestTimeouts \cup {SessionClosedError} : CompleteProbeWith(h, i, resp)

\* the positions of the tasks of a batch: the catalog and a custom platform
TaskIndices == 1..(Len(SocialPlatforms) + 1)

Fairness ==
    \A h \in Callers :
        /\ WF_vars(Dispatch(h))
        /\ WF_vars(StartTasks(h))
        /\ WF_vars(ResumeAfterGather(h))
        /\ WF_vars(CloseDone(h))
        /\ WF_vars(StartChecks(h))
        /\ WF_vars(AwaitCheck(h))
        /\ WF_vars(FinishChecks(h))
        /\ WF_vars(DelayElapsed(h))
        /\ \A i \in TaskIndices : WF_vars(ProbeExpires(h, i))

SpecLive == Init /\ [][Next]_vars /\ Fairness

(***************************************************************************)
(* One caller of a SocialMediaHunter and a coroutine that registers        *)
(* platforms whenever it runs: add_custom_platform is a plain method, so   *)
(* it can run at every point where the hunt is suspended.                  *)
(***************************************************************************)
\* the names registered: a new platform and one of the catalog
CatalogNames == {"custom", "twitter"}

\* the URL pattern registered
CatalogPatterns == { <<"https://x.test/", "{}">> }

InitCatalog == Init /\ hunter = "social"

NextCatalog ==
    \/ \E name \in CatalogNames, url_pattern \in CatalogPatterns :
            add_custom_platform(name, url_pattern, << <<"a">> >>, << <<"b">> >>)
    \/ StartHunt(1)
    \/ Dispatch(1)
    \/ StartTasks(1)
    \/ \E i \in 1..Len(hunts[1].probes) : AcquireConnection(1, i)
    \/ \E i \in 1..Len(hunts[1].probes) : CompleteProbe(1, i)
    \/ ResumeAfterGather(1)
    \/ CloseDone(1)
    \/ DelayElapsed(1)

SpecCatalog == InitCatalog /\ [][NextCatalog]_vars

(***************************************************************************)
(* The probes, one call at a time: every probe applied to every platform   *)
(* definition and every answer of the transport.                           *)
(***************************************************************************)
\* no hunt runs while the probes are called one at a time
HuntIdle ==
    /\ hunter = "social"
    /\ platforms = SocialPlatforms
    /\ workers = MaxWorkers
    /\ session = 0
    /\ sessions = <<>>
    /\ started = 0
    /\ hunts = [c \in Callers |-> IdleHunt]

ProbeInit == ProbeIdle /\ HuntIdle

\* a caller awaits check_username_on_platform on an answer of the transport
UsernameProbe ==
    /\ probeIn = NoCall
    /\ \E cls \in {"social", "username"}, username \in Usernames,
          p \in ProbePlatforms, resp \in Responses :
        /\ probeIn' = [fn |-> "check_username_on_platform", hunter |-> cls,
                       username |-> username, platform |-> p.name,
                       platform_data |-> p.data, resp |-> resp]
        /\ probeOut' = CheckUsernameOnPlatform(cls, username, p.name, p.data, resp)
    /\ UNCHANGED huntVars

\* a caller awaits one of the account checks of EmailHunter
EmailProbe ==
    /\ probeIn = NoCall
    /\ \E check \in EmailChecks, email \in Emails, resp \in EmailResponses :
       \E resolvable \in (IF check = "adobe" THEN BOOLEAN ELSE {TRUE}),
          second \in (IF check = "gravatar" THEN ProfileResponses ELSE {TimeoutError}) :
        /\ probeIn' = [fn |-> check, hunter |-> "email", email |-> email,
                       resolvable |-> resolvable, resp |-> resp, second |-> second]
        /\ probeOut' = Returned(EmailCheck(check, email, resolvable, resp, second))
    /\ UNCHANGED huntVars

\* the caller has taken the result
ProbeDone ==
    /\ probeIn # NoCall
    /\ probeIn' = NoCall
    /\ probeOut' = Returned(None)
    /\ UNCHANGED huntVars

ProbeNext == UsernameProbe \/ EmailProbe \/ ProbeDone

SpecProbe == ProbeInit /\ [][ProbeNext]_vars

(***************************************************************************)
(* Calls of generate_breach_report, one at a time, on the lists of         *)
(* results check_breaches can collect.                                     *)
(***************************************************************************)
\* the dicts the checks of BreachChecker return
BreachResults(email) ==
    { [source |-> "Have I Been Pwned", email |-> email, found |-> TRUE],
      check_breachdirectory(email) }

RECURSIVE ResultLists(_, _)
ResultLists(email, n) ==
    IF n = 0 THEN {<<>>}
    ELSE LET shorter == ResultLists(email, n - 1)
         IN  shorter \cup {Append(l, r) : l \in {t \in shorter : Len(t) = n - 1},
                                          r \in BreachResults(email)}

\* a caller awaits generate_breach_report
ReportCall ==
    /\ probeIn = NoCall
    /\ \E email \in Emails : \E results \in ResultLists(email, MaxResults) :
        /\ probeIn' = [fn |-> "generate_breach_report", hunter |-> "breach",
                       email |-> email, results |-> results]
        /\ probeOut' = Returned(generate_breach_report(email, results))
    /\ UNCHANGED huntVars

ReportNext == ReportCall \/ ProbeDone

SpecReport == ProbeInit /\ [][ReportNext]_vars

(***************************************************************************)
(* Properties of the probes (checked under SpecProbe).                     *)
(***************************************************************************)
IsUsernameProbe == probeIn.fn = "check_username_on_platform"

IsEmailProbe == probeIn.fn \in EmailChecks

\* the probe returned a dict with exists = True
ProbeFound ==
    /\ probeIn # NoCall
    /\ ~ probeOut.raised
    /\ probeOut.value # None
    /\ probeOut.value.exists

\* ind is a substring of body when the case of letters is disregarded
CaseInsensitiveSubstring(ind, body) ==
    \E k \in 0..(Len(body) - Len(ind)) :
        \A i \in 1..Len(ind) : LowerChar(body[k + i]) = LowerChar(ind[i])

SomeIndicatorMatches(indicators, body) ==
    \E j \in 1..Len(indicators) : CaseInsensitiveSubstring(indicators[j], body)

\* the request of the probe was issued: both URL templates expand
ProbeRequested ==
    /\ ~ FormatRaises(probeIn.platform_data.check_url)
    /\ ~ FormatRaises(probeIn.platform_data.url)

\* C1: a username probe of either hunter returns exists = True if and only
\* if the status is 200, some positive indicator is a case-insensitive
\* substring of the body and no negative indicator is; in particular a body
\* matching both a positive and a negative indicator is not found.
C1_FoundIffPositiveAndNotNegative ==
    IsUsernameProbe =>
        (ProbeFound <=>
            /\ ProbeRequested
            /\ probeIn.resp.kind = "response"
            /\ probeIn.resp.status = 200
            /\ SomeIndicatorMatches(probeIn.platform_data.indicators,
                                    probeIn.resp.body)
            /\ ~ SomeIndicatorMatches(probeIn.platform_data.not_found_indicators,
                                      probeIn.resp.body))

\* a 200 answer whose body matches a positive and a negative indicator, in
\* a case other than the indicators', and the probe answered not found
C1_Witness_BothMatch ==
    /\ IsUsernameProbe
    /\ probeIn.platform = "twitter"
    /\ probeIn.resp.kind = "response"
    /\ probeIn.resp.status = 200
    /\ probeIn.resp.body = <<"a", "B", "A">>
    /\ ~ probeOut.raised
    /\ ~ probeOut.value.exists

\* C2: a result with exists = True is produced only when the status of the
\* response to the probe's request was 200; this covers the username probes
\* and the email account checks.
C2_FoundOnlyWhenStatus200 ==
    ProbeFound =>
        /\ probeIn.resp.kind = "response"
        /\ probeIn.resp.status = 200

\* C10: when the request times out, the probe of either hunter returns a
\* not-found result whose error detail is exactly "Timeout".
C10_TimeoutErrorDetail ==
    (IsUsernameProbe /\ ProbeRequested /\ probeIn.resp.kind = "timeout") =>
        /\ ~ probeOut.raised
        /\ ~ probeOut.value.exists
        /\ probeOut.value.error = "Timeout"

(***************************************************************************)
(* Properties of the hunts (checked under Spec).                           *)
(***************************************************************************)
IsCategoryHunter == hunter \in {"social", "username"}

\* the sequence a category hunt is returning: valid_results while the
\* finally clause closes the session, the last entry of the output after it
ReturnedBy(r) == IF r.pc = "closing" THEN r.valid ELSE r.out[Len(r.out)].found

\* hunt h resumes from gather in this step
Resumes(h) == hunts[h].pc = "gather" /\ hunts'[h].pc # "gather"

TransportFailed(probe) == probe.end \in {"timeout", "error"}

ProbeIsFound(probe) == ~ probe.out.raised /\ probe.out.value.exists

\* C3: with include_adult false, the result returned through hunt_username,
\* hunt_general_sites, hunt_all_platforms, hunt_social_accounts and
\* hunt_all_accounts holds no platform of the adult category.
C3_NoAdultWhenExcluded ==
    \A h \in Callers :
        (/\ hunts[h].pc = "returned"
         /\ ~ hunts[h].include_adult
         /\ hunts[h].entry \in {"hunt_username", "hunt_general_sites",
                                "hunt_all_platforms", "hunt_social_accounts",
                                "hunt_all_accounts"})
        => \A k \in 1..Len(hunts[h].out) :
             \A j \in 1..Len(hunts[h].out[k].found) :
                hunts[h].out[k].found[j].platform \notin AdultPlatforms

C5_ProbeFailuresContained ==
    [][\A h \in Callers :
        (IsCategoryHunter /\ Resumes(h))
        => LET probes == hunts[h].probes
               returned == ReturnedBy(hunts'[h])
           IN  /\ ~ hunts'[h].raised
               /\ hunts'[h].pc \in {"closing", "start", "sleeping", "returned"}
               /\ \A i \in 1..Len(probes) :
                    /\ probes[i].st = "done"
                    /\ ProbeIsFound(probes[i])
                       => \E k \in 1..Len(returned) :
                            returned[k] = probes[i].out.value]_vars

\* a hunt with a probe that raised, a probe that timed out and a found
\* probe, which is returning the found one
C5_Witness_RaisedTimedOutFound ==
    \E h \in Callers :
        /\ hunts[h].pc = "closing"
        /\ ~ hunts[h].raised
        /\ \E i, j, k \in 1..Len(hunts[h].probes) :
            /\ hunts[h].probes[i].out.raised
            /\ hunts[h].probes[j].end = "timeout"
            /\ ProbeIsFound(hunts[h].probes[k])
            /\ hunts[h].valid = <<hunts[h].probes[k].out.value>>

\* the requests of hunt h that hold a connection
InflightOf(h) ==
    Cardinality({i \in 1..Len(hunts[h].probes) : hunts[h].probes[i].st = "inflight"})

\* C6: the number of probe requests in flight at the transport never
\* exceeds config.max_workers, whatever the number of platforms.
C6_InflightWithinWorkerCap ==
    /\ \A sid \in 1..Len(sessions) : InflightCount(sid) <= workers
    /\ \A h \in Callers : InflightOf(h) <= workers

\* more platforms than workers: a probe waits while the connector is full
C6_Witness_ProbeWaitsAtCap ==
    \E h \in Callers :
        /\ Len(hunts[h].probes) > workers
        /\ \E i \in 1..Len(hunts[h].probes) :
            /\ hunts[h].probes[i].st = "waiting"
            /\ InflightCount(hunts[h].probes[i].sid) = workers

\* C7: when an invocation of a hunt entry point has returned or raised, the
\* sessions it opened have been closed.
C7_SessionClosedOnExit ==
    \A h \in Callers :
        hunts[h].pc = "returned"
        => \A sid \in 1..Len(sessions) :
             sessions[sid].owner = hunts[h].id => ~ sessions[sid].open

\* C8: two hunts that overlap on one hunter never use the same session,
\* and no session is closed while a hunt has requests in flight on it.
C8_NoSessionSharedAcrossHunts ==
    /\ \A h \in Callers : \A i \in 1..Len(hunts[h].probes) :
          hunts[h].probes[i].sid # 0
          => sessions[hunts[h].probes[i].sid].owner = hunts[h].id
    /\ \A h \in Callers : \A i \in 1..Len(hunts[h].probes) :
          (hunts[h].pc = "gather" /\ hunts[h].probes[i].st = "inflight")
          => sessions[hunts[h].probes[i].sid].open

\* C9: an invocation of hunt_all_platforms opens exactly one session,
\* which serves the probes of every category and is closed once at the
\* end; the probes of a single-category hunt are served by one session.
C9_OneSessionPerHuntAll ==
    /\ \A h \in Callers :
          (hunts[h].entry = "hunt_all_platforms" /\ hunts[h].pc = "returned")
          => hunts[h].opened = 1
    /\ \A h \in Callers :
          (hunts[h].entry = "hunt_all_platforms" /\ hunts[h].step > 1)
          => hunts[h].opened <= 1
    /\ \A h \in Callers : \A i, j \in 1..Len(hunts[h].probes) :
          hunts[h].probes[i].st # "created" /\ hunts[h].probes[j].st # "created"
          => hunts[h].probes[i].sid = hunts[h].probes[j].sid

(***************************************************************************)
(* Properties of the probes on transport failures (checked under           *)
(* SpecProbe).                                                             *)
(***************************************************************************)
\* C11: on a transport failure other than a timeout, a username probe
\* returns, and does not raise, a result with exists = False whose error
\* detail is the description of the failure, with no additional_info and no
\* HTTP status code of a response.
C11_TransportFailureResult ==
    (IsUsernameProbe /\ ProbeRequested /\ probeIn.resp.kind = "error")
    => /\ ~ probeOut.raised
       /\ ~ probeOut.value.exists
       /\ probeOut.value.error = probeIn.resp.msg
       /\ "additional_info" \notin DOMAIN probeOut.value
       /\ "status_code" \in DOMAIN probeOut.value
          => probeOut.value.status_code \notin Statuses

\* a refused connection reported by the probe of UsernameHunter
C11_Witness_ConnectionRefused ==
    /\ IsUsernameProbe
    /\ probeIn.hunter = "username"
    /\ probeIn.platform = "github"
    /\ probeIn.resp.kind = "error"
    /\ ~ probeOut.raised
    /\ probeOut.value.error = "Cannot connect to host"

(***************************************************************************)
(* Further properties of the hunts (checked under Spec).                   *)
(***************************************************************************)
\* the catalog of the hunter holds a platform whose URL template does not
\* expand
CatalogHasInvalidTemplate ==
    \E i \in 1..Len(platforms) : FormatRaises(platforms[i].data.check_url)

\* C12: a hunt that dispatches a platform whose URL template does not
\* expand raises an error to its caller instead of returning a sequence.
C12_InvalidTemplateRaisesToCaller ==
    \A h \in Callers :
        (/\ hunter = "social"
         /\ CatalogHasInvalidTemplate
         /\ hunts[h].pc = "returned")
        => hunts[h].raised

\* the category keys of the mapping a hunt has built so far
KeysOf(r) == [k \in 1..Len(r.out) |-> r.out[k].key]

Categories ==
    {"general_sites", "developer_platforms", "forums", "gaming_platforms",
     "adult_platforms"}

\* C15: the mapping returned by hunt_all_platforms has a key for every
\* category, the adult category included when it is excluded from the
\* hunt, and every key maps to a sequence.
C15_KeyForEveryCategory ==
    \A h \in Callers :
        (hunts[h].entry = "hunt_all_platforms" /\ hunts[h].pc = "returned"
         /\ ~ hunts[h].raised)
        => {hunts[h].out[k].key : k \in 1..Len(hunts[h].out)} = Categories

\* C17: every element of the sequence a category hunt returns has
\* exists = True, and every probe of the hunt that was classified as found
\* is in the returned sequence exactly once.
C17_ReturnedIsExactlyTheFound ==
    [][\A h \in Callers :
        (IsCategoryHunter /\ Resumes(h))
        => LET probes == hunts[h].probes
               returned == ReturnedBy(hunts'[h])
           IN  /\ \A k \in 1..Len(returned) : returned[k].exists
               /\ \A i \in 1..Len(probes) :
                    ProbeIsFound(probes[i])
                    => Cardinality({k \in 1..Len(returned) :
                                      returned[k] = probes[i].out.value}) = 1]_vars

\* a hunt of two probes, both found, that is returning both
C17_Witness_TwoFound ==
    \E h \in Callers :
        /\ hunts[h].pc = "closing"
        /\ Len(hunts[h].probes) = 2
        /\ \A i \in 1..2 : ProbeIsFound(hunts[h].probes[i])
        /\ Len(hunts[h].valid) = 2
        /\ hunts[h].valid[1] # hunts[h].valid[2]

CategoryOrder ==
    <<"general_sites", "developer_platforms", "forums", "gaming_platforms",
      "adult_platforms">>

\* C18: the mapping of hunt_all_platforms lists the categories in the order
\* general_sites, developer_platforms, forums, gaming_platforms and then
\* adult_platforms when requested, whatever the order in which the probes
\* complete.
C18_CategoryOrderFixed ==
    \A h \in Callers :
        hunts[h].entry = "hunt_all_platforms"
        => /\ \A k \in 1..Len(hunts[h].out) : hunts[h].out[k].key = CategoryOrder[k]
           /\ (hunts[h].pc = "returned" /\ ~ hunts[h].raised)
              => Len(hunts[h].out) = IF hunts[h].include_adult THEN 5 ELSE 4

\* a hunt_all_platforms with the adult category that returned its five
\* categories, two platforms found in the first
C18_Witness_FiveCategories ==
    \E h \in Callers :
        /\ hunts[h].entry = "hunt_all_platforms"
        /\ hunts[h].include_adult
        /\ hunts[h].pc = "returned"
        /\ KeysOf(hunts[h]) = CategoryOrder
        /\ Len(hunts[h].out[1].found) = 2

\* C20: a check that cannot verify existence is never reported as a
\* positive hit: no OnlyFans entry with exists = True in the result of
\* hunt_social_accounts, and the Breach Directory placeholder is not
\* counted in the breach report.
C20_UnverifiedNeverPositive ==
    \A h \in Callers :
        hunts[h].pc = "returned"
        => \A k \in 1..Len(hunts[h].out) :
            /\ hunter = "email"
               => \A j \in 1..Len(hunts[h].out[k].found) :
                    hunts[h].out[k].found[j].platform # "onlyfans"
            /\ hunter = "breach"
               => /\ hunts[h].out[k].report.total_breaches_found =
                        Cardinality({j \in 1..Len(hunts[h].out[k].found) :
                                        hunts[h].out[k].found[j].found})
                  /\ \A j \in 1..Len(hunts[h].out[k].report.breach_sources) :
                        hunts[h].out[k].report.breach_sources[j] # "Breach Directory"

\* C13: within one invocation of a hunt entry point no platform is
\* requested more than once for the identifier, hunt_all_platforms with
\* either value of include_adult included; a probe that timed out or failed
\* is not issued again.
C13_OneRequestPerPlatform ==
    \A h \in Callers :
        \A a, b \in 1..Len(hunts[h].requested) :
            a # b => hunts[h].requested[a].platform # hunts[h].requested[b].platform

\* C14: in the mapping returned by hunt_all_platforms no platform appears
\* under two category keys, and no platform is probed for two categories.
C14_CategoriesDisjoint ==
    \A h \in Callers :
        hunts[h].entry = "hunt_all_platforms"
        => /\ \A k1, k2 \in 1..Len(hunts[h].out) :
                k1 # k2
                => \A j1 \in 1..Len(hunts[h].out[k1].found),
                      j2 \in 1..Len(hunts[h].out[k2].found) :
                        hunts[h].out[k1].found[j1].platform
                            # hunts[h].out[k2].found[j2].platform
           /\ \A a, b \in 1..Len(hunts[h].requested) :
                hunts[h].requested[a].platform = hunts[h].requested[b].platform
                => hunts[h].requested[a].key = hunts[h].requested[b].key

\* the close of the session fails in this step of hunt h: the hunt leaves
\* its finally clause with self.session as it was
CloseFails(h) ==
    /\ session # 0
    /\ session' = session
    /\ sessions' = sessions
    /\ hunts'[h].pc # "closing"
    /\ \/ IsCategoryHunter /\ Resumes(h)
       \/ /\ hunts[h].pc = "checks"
          /\ hunts'[h].pc # "checks"
          /\ hunts[h].step = Len(hunts[h].plan)
          /\ ClosesSession(hunts[h].entry)

\* the found results hunt h has computed when it reaches its finally clause
ComputedBy(r) ==
    IF r.pc = "checks" THEN r.valid
    ELSE LET found == SelectSeq(r.probes, ProbeIsFound)
         IN  [k \in 1..Len(found) |-> found[k].out.value]

\* C16: when the close of the session fails at the end of hunt_username,
\* hunt_platforms, check_breaches or hunt_all_accounts, the invocation
\* still returns the result it computed and no exception reaches the caller.
C16_CloseFailureNotReraised ==
    [][\A h \in Callers :
        CloseFails(h)
        => /\ ~ hunts'[h].raised
           /\ Len(hunts'[h].out) = Len(hunts[h].out) + 1
           /\ hunts'[h].out[Len(hunts'[h].out)].found = ComputedBy(hunts[h])]_vars

\* a hunt that returned its found results although the close of the
\* session it opened failed: the session is still open
C16_Witness_ReturnedAfterFailedClose ==
    \E h \in Callers :
        /\ hunts[h].pc = "returned"
        /\ ~ hunts[h].raised
        /\ ClosesSession(hunts[h].entry)
        /\ session # 0
        /\ sessions[session].owner = hunts[h].id
        /\ sessions[session].open
        /\ Len(hunts[h].out) = Len(hunts[h].plan)
        /\ hunts[h].out[1].found # <<>>

(***************************************************************************)
(* Termination of the hunts (checked under SpecLive).                      *)
(***************************************************************************)
\* C19: every probe that was dispatched yields a result in the end and the
\* hunt returns in the end, also with more platforms than workers and with
\* platforms that never answer before the timeout.
C19_ProbesEndAndHuntReturns ==
    \A h \in Callers :
        /\ (hunts[h].pc = "gather")
              ~> (hunts[h].pc = "gather" /\ AllDone(hunts[h].probes))
        /\ (IsCategoryHunter
                /\ hunts[h].pc \in {"start", "scheduled", "gather", "closing", "sleeping"})
              ~> (hunts[h].pc = "returned")

\* more platforms than workers: a probe that queued for a connection and
\* one that timed out, in a hunt that is returning
C19_Witness_QueuedAndTimedOut ==
    \E h \in Callers :
        /\ hunts[h].pc = "closing"
        /\ Len(hunts[h].probes) > workers
        /\ \E i, j \in 1..Len(hunts[h].probes) :
            /\ i # j
            /\ hunts[h].probes[i].end = "timeout"
            /\ hunts[h].probes[j].end = "response"

\* C25: once an entry point that closes the session has returned or raised
\* and no other hunt runs, self.session is None, also when the close
\* failed; a hunt that runs alone issues its requests through a session it
\* opened itself.
C25_SessionNoneAfterReturn ==
    /\ \A h \in Callers :
          (/\ hunts[h].pc = "returned"
           /\ ClosesSession(hunts[h].entry)
           /\ ActiveHunts = {})
          => session = 0
    /\ \A h \in Callers :
          (ActiveHunts = {h} /\ hunts[h].pc \in {"scheduled", "gather", "checks"})
          => /\ session # 0
             /\ sessions[session].owner = hunts[h].id
             /\ sessions[session].open

\* the number of results of a breach check that report the email as found
FoundCount(found) == Cardinality({j \in 1..Len(found) : found[j].found})

\* C28: the report of check_breaches counts in total_breaches_found the
\* sources that reported found = True; with no such source the total is 0
\* and the risk_level is 'Unknown'.
C28_TotalIsNumberOfFoundSources ==
    \A h \in Callers :
        (/\ hunts[h].pc = "returned"
         /\ hunts[h].entry = "check_breaches"
         /\ ~ hunts[h].raised)
        => LET found == hunts[h].out[1].found
               report == hunts[h].out[1].report
           IN  /\ report.total_breaches_found = FoundCount(found)
               /\ FoundCount(found) = 0
                  => /\ report.total_breaches_found = 0
                     /\ report.risk_level = "Unknown"

\* the entry points that hunt with include_adult false unless it is given
FiltersAdult(entry) == TakesIncludeAdult(entry) \/ entry = "hunt_multiple_usernames"

\* C21: in a hunt with include_adult false no task is created for an adult
\* platform and no request is issued for one, at any point of the hunt.
C21_AdultFilteredBeforeDispatch ==
    \A h \in Callers :
        (FiltersAdult(hunts[h].entry) /\ ~ hunts[h].include_adult)
        => /\ \A i \in 1..Len(hunts[h].tasks) :
                hunts[h].tasks[i].name \notin AdultPlatforms
           /\ Len(hunts[h].probes) = Len(hunts[h].tasks)
           /\ \A k \in 1..Len(hunts[h].requested) :
                hunts[h].requested[k].platform \notin AdultPlatforms

\* hunt_general_sites without include_adult has its requests out: fewer
\* tasks than general_sites has platforms
C21_Witness_GeneralSitesFiltered ==
    \E h \in Callers :
        /\ hunts[h].entry = "hunt_general_sites"
        /\ ~ hunts[h].include_adult
        /\ hunts[h].pc = "gather"
        /\ hunts[h].requested # <<>>
        /\ Len(hunts[h].tasks) < Len(general_sites)
        /\ \E i \in 1..Len(general_sites) : general_sites[i].name \in AdultPlatforms

\* C24: hunt_multiple_usernames starts the batch of a username only when
\* the batch of the username before it has ended and the delay after it has
\* elapsed; the probes of one batch are started together, with no delay
\* between them.
C24_BatchesSequentialWithDelay ==
    \A h \in Callers :
        hunts[h].entry = "hunt_multiple_usernames"
        => /\ hunts[h].pc \in {"start", "scheduled", "gather", "closing"}
              => /\ hunts[h].slept = hunts[h].step - 1
                 /\ Len(hunts[h].out) = hunts[h].step - 1
           /\ hunts[h].pc \in {"scheduled", "gather", "closing"}
              => hunts[h].username = hunts[h].plan[hunts[h].step]
           /\ hunts[h].pc = "sleeping"
              => /\ hunts[h].probes = <<>>
                 /\ hunts[h].slept = hunts[h].step - 2
                 /\ Len(hunts[h].out) = hunts[h].step - 1
           /\ hunts[h].pc = "gather"
              => \A i \in 1..Len(hunts[h].probes) : hunts[h].probes[i].st # "created"

\* the batch of the second username has its requests out, after one delay
C24_Witness_SecondBatchAfterDelay ==
    \E h \in Callers :
        /\ hunts[h].entry = "hunt_multiple_usernames"
        /\ hunts[h].step = 2
        /\ hunts[h].pc = "gather"
        /\ hunts[h].slept = 1
        /\ hunts[h].username = "bob"
        /\ \E i \in 1..Len(hunts[h].probes) : hunts[h].probes[i].st = "inflight"

\* the position of a platform among the tasks of a batch
TaskIndex(tasks, name) == CHOOSE i \in 1..Len(tasks) : tasks[i].name = name

\* C26: the found results a category hunt returns are in the order in which
\* the tasks were created, whatever the order in which the probes ended.
C26_ReturnedInTaskOrder ==
    [][\A h \in Callers :
        (IsCategoryHunter /\ Resumes(h) /\ ~ hunts'[h].raised)
        => LET ret == ReturnedBy(hunts'[h])
           IN  \A a, b \in 1..Len(ret) :
                a < b => TaskIndex(hunts[h].tasks, ret[a].platform)
                            < TaskIndex(hunts[h].tasks, ret[b].platform)]_vars

\* the second probe of a batch has ended with a found result while the
\* first is still in flight
C26_Witness_SecondEndsFirst ==
    \E h \in Callers :
        /\ hunts[h].pc = "gather"
        /\ Len(hunts[h].probes) >= 2
        /\ hunts[h].probes[1].st = "inflight"
        /\ hunts[h].probes[2].st = "done"
        /\ ProbeIsFound(hunts[h].probes[2])

\* the position of a check in the list of hunt_social_accounts
CheckIndex(tasks, name) == CHOOSE i \in 1..Len(tasks) : tasks[i] = name

\* hunt h is in the loop of hunt_social_accounts
InSocialChecks(r) ==
    /\ r.pc = "checks"
    /\ r.step <= Len(r.plan)
    /\ r.plan[r.step] = "social_accounts"

\* C30: hunt_social_accounts awaits its checks one at a time in the order
\* gravatar, microsoft, adobe, onlyfans, pornhub, chaturbate; whatever a
\* check returns, the next one runs; the results kept are the ones with
\* exists = True, in that order.
C30_ChecksOneAtATimeInOrder ==
    /\ [](\A h \in Callers :
            InSocialChecks(hunts[h])
            => /\ hunts[h].tasks = <<"gravatar", "microsoft", "adobe",
                                     "onlyfans", "pornhub", "chaturbate">>
               /\ hunts[h].probes = <<>>
               /\ \A a \in 1..Len(hunts[h].valid) :
                    /\ hunts[h].valid[a].exists
                    /\ CheckIndex(hunts[h].tasks, hunts[h].valid[a].platform)
                            < hunts[h].idx
                    /\ \A b \in 1..Len(hunts[h].valid) :
                         a < b => CheckIndex(hunts[h].tasks, hunts[h].valid[a].platform)
                                    < CheckIndex(hunts[h].tasks, hunts[h].valid[b].platform))
    /\ [][\A h \in Callers :
            (InSocialChecks(hunts[h]) /\ hunts'[h] # hunts[h])
            => \/ /\ hunts'[h].pc = "checks"
                  /\ hunts[h].idx <= Len(hunts[h].tasks)
                  /\ hunts'[h].idx = hunts[h].idx + 1
                  /\ \E resp \in CheckAnswers, second \in CheckAnswers,
                        resolvable \in BOOLEAN :
                        LET result == RunCheck(hunts[h].tasks[hunts[h].idx],
                                               hunts[h].username, resolvable,
                                               resp, second)
                        IN  hunts'[h].valid =
                                IF result # None /\ result.exists
                                THEN Append(hunts[h].valid, result)
                                ELSE hunts[h].valid
               \/ /\ hunts'[h].pc # "checks"
                  /\ hunts[h].idx = Len(hunts[h].tasks) + 1
                  /\ hunts'[h].out[Len(hunts'[h].out)].found = hunts[h].valid]_vars

\* hunt_social_accounts returned two accounts, the first of its list among
\* them, after checks that gave nothing
C30_Witness_TwoOfSixKept ==
    \E h \in Callers :
        /\ hunts[h].entry = "hunt_social_accounts"
        /\ hunts[h].pc = "returned"
        /\ Len(hunts[h].out[1].found) = 2
        /\ hunts[h].out[1].found[1].platform = "gravatar"
        /\ hunts[h].out[1].found[2].platform = "chaturbate"

(***************************************************************************)
(* The catalog of SocialMediaHunter during hunts (checked under            *)
(* SpecCatalog).                                                           *)
(***************************************************************************)
Names(dict) == {dict[i].name : i \in 1..Len(dict)}

ProbesOut(r) == \E i \in 1..Len(r.probes) : r.probes[i].st \in {"inflight", "waiting"}

\* C23: the catalog does not change while probes of a hunt are in flight:
\* add_custom_platform takes effect between hunts only.
C23_NoRegistrationDuringHunt ==
    [][platforms' # platforms => \A h \in Callers : ~ ProbesOut(hunts[h])]_vars

\* C27: a hunt probes the platforms the catalog held when its tasks were
\* created, with the definitions they had then: a registration during the
\* hunt changes neither its tasks nor its results; the next hunt takes the
\* catalog as it is then; the names of the catalog stay distinct.
C27_HuntProbesSnapshot ==
    /\ [](\A a, b \in 1..Len(platforms) :
            a # b => platforms[a].name # platforms[b].name)
    /\ [](\A h \in Callers : \A i \in 1..Len(hunts[h].probes) :
            (hunts[h].probes[i].st = "done" /\ ~ hunts[h].probes[i].out.raised)
            => /\ hunts[h].probes[i].out.value.platform = hunts[h].tasks[i].name
               /\ hunts[h].probes[i].out.value.url
                    = Format(hunts[h].tasks[i].data.url, hunts[h].username))
    /\ [][\A h \in Callers :
            /\ platforms' # platforms => hunts'[h] = hunts[h]
            /\ (hunts[h].pc \in {"scheduled", "gather"}
                    /\ hunts'[h].pc \in {"scheduled", "gather"})
               => /\ hunts'[h].tasks = hunts[h].tasks
                  /\ Len(hunts'[h].probes) = Len(hunts[h].tasks)
            /\ Resumes(h)
               => \A k \in 1..Len(ReturnedBy(hunts'[h])) :
                    ReturnedBy(hunts'[h])[k].platform \in Names(hunts[h].tasks)
            /\ (hunts[h].pc = "start" /\ hunts'[h].pc = "scheduled")
               => Names(hunts'[h].tasks)
                    = {n \in Names(platforms) :
                        hunts[h].include_adult \/ n \notin SocialAdultPlatforms}]_vars

\* a hunt is returning a found twitter profile while the catalog holds a
\* platform registered after its tasks were created and another definition
\* of twitter
C27_Witness_RegisteredDuringHunt ==
    \E h \in Callers :
        /\ hunts[h].pc = "closing"
        /\ "custom" \in Names(platforms) \ Names(hunts[h].tasks)
        /\ \E i \in 1..Len(hunts[h].tasks), k \in 1..Len(platforms) :
            /\ hunts[h].tasks[i].name = "twitter"
            /\ platforms[k].name = "twitter"
            /\ platforms[k].data # hunts[h].tasks[i].data
            /\ ProbeIsFound(hunts[h].probes[i])

(***************************************************************************)
(* Responses that are not 200 (checked under SpecProbe).                   *)
(***************************************************************************)
\* C22: a probe answered with a status other than 200 returns not-found
\* with that status recorded, whatever the body holds and whether or not
\* the body can be read: it does not read the body of such a response.
C22_NonOkStatusRecordedBodyUnread ==
    (/\ IsUsernameProbe
     /\ "status" \in DOMAIN probeIn.resp
     /\ probeIn.resp.status # 200
     /\ ~ probeOut.raised)
    => /\ ~ probeOut.value.exists
       /\ "status_code" \in DOMAIN probeOut.value
       /\ probeOut.value.status_code = probeIn.resp.status

(***************************************************************************)
(* The breach report (checked under SpecReport).                           *)
(***************************************************************************)
IsReportCall == probeIn.fn = "generate_breach_report"

\* C29: for n results generate_breach_report gives risk_level 'Unknown'
\* for n = 0, 'Low' for n = 1, 'Medium' for 2 <= n <= 4 and 'High' for
\* n >= 5, never 'Clean'; total_breaches_found is n; recommendations and
\* breach_sources are non-empty exactly when n >= 1.
C29_RiskLevelByCount ==
    IsReportCall
    => LET n == Len(probeIn.results)
           report == probeOut.value
       IN  /\ ~ probeOut.raised
           /\ report.risk_level = (IF n = 0 THEN "Unknown"
                                   ELSE IF n = 1 THEN "Low"
                                   ELSE IF n <= 4 THEN "Medium"
                                   ELSE "High")
           /\ report.risk_level # "Clean"
           /\ report.total_breaches_found = n
           /\ (report.recommendations # <<>>) <=> (n >= 1)
           /\ (report.breach_sources # <<>>) <=> (n >= 1)
           /\ Len(report.breach_sources) = n

\* reports on four results and on five: the step from 'Medium' to 'High'
C29_Witness_FourResultsMedium ==
    /\ IsReportCall
    /\ Len(probeIn.results) = 4
    /\ probeOut.value.risk_level = "Medium"
    /\ probeOut.value.total_breaches_found = 4

====
